---- MODULE Spec2Model ----
(***************************************************************************)
(* The versioned cache-aside store of a key-value node                     *)
(* (src/server/store.py, VersionedKeyValueStore) together with the SQLite  *)
(* persistence layer it writes through to (src/database.py,                *)
(* DatabaseLayer).  Every put and get runs under the store's lock, so each *)
(* is one atomic action here.  The database file outlives the process:     *)
(* Restart is the node being started again on the file it left.            *)
(*                                                                         *)
(* The second half is the gateway in front of the nodes: the consistent    *)
(* hash ring (src/gateway/consistent_hash.py), the load balancer that      *)
(* routes a path to a node and keeps the request metrics                   *)
(* (src/gateway/load_balancer.py) and the insights computed from them      *)
(* (src/gateway/monitoring.py, src/gateway/main.py).  The store and the    *)
(* gateway are different processes: each specification below moves one of  *)
(* them and leaves the other in its initial state.                         *)
(***************************************************************************)
EXTENDS Integers, Sequences, FiniteSets, TLC

\* ------------------------------------------------------------------ bounds
\* The keys the clients use.
Keys == {"A", "B", "C"}
\* Largest number of versions written for one key.
MaxVersion == 2
\* Total number of puts issued over a run.
MaxPuts == 3
\* Largest reading of the wall clock.
MaxClock == 1

\* ------------------------------------------------------- program constants
\* Python's None, where an Optional[int] is expected.
None == -1
\* The cache capacity the node is constructed with.
max_cache_size == 2

\* values_table, keys_table : the rows of the two tables of the database file
\* store                    : _store, key -> list of VersionedValue
\* access_times             : _access_times, in the insertion order of the dict
\* clock                    : the last reading of the wall clock
\* resp                     : the last operation and what it returned
\* put_count, recency       : history: the puts made to each key, and the
\*                            cached keys from least to most recently accessed
VARIABLES values_table, keys_table, store, access_times, clock, resp, put_count, recency

\* lock        : the owner of VersionedKeyValueStore._lock, "None" when free
\* pc, frame   : where each request thread of the node is, and its locals
VARIABLES lock, pc, frame

\* hash_of     : _hash, the SHA-256 value of each string as its rank
\* servers     : ConsistentHash.servers, the list the ring was constructed with
\* ring        : ConsistentHash.ring, hash value -> server
\* sorted_keys : ConsistentHash.sorted_keys
\* found       : the last call on the ring and what it returned
VARIABLES hash_of, servers, ring, sorted_keys, found

\* request_counts, latency_times : the metrics of LoadBalancer
\* backend                       : the last get_backend_url and what it returned
\* insights                      : the last result of get_insights
\* forward                       : the last request forward_request served
VARIABLES request_counts, latency_times, backend, insights, forward

\* mutator, reader : a thread inside remove_server and a thread inside
\*                   get_server, each with its position and its locals
VARIABLES mutator, reader

store_vars == <<values_table, keys_table, store, access_times, clock, resp, put_count, recency>>

thread_vars == <<lock, pc, frame>>

ring_vars == <<hash_of, servers, ring, sorted_keys, found>>

balancer_vars == <<request_counts, latency_times, backend, insights, forward>>

race_vars == <<mutator, reader>>

vars == <<store_vars, thread_vars, ring_vars, balancer_vars, race_vars>>

\* ------------------------------------------------------------------ helpers
\* time.time(): a reading of the wall clock taken after the reading c.  The
\* clock has a finite resolution, so two successive readings may be equal.
time_time(c) == {t \in {c, c + 1} : t <= MaxClock}

\* json.dumps / json.loads: the text stored in the value column. A JSON value
\* read back from its text is the value again.
json_dumps(v) == <<v>>

json_loads(s) == s[1]

\* dict.get(k, default): the default only when the key is missing; a key that
\* is present with the value None yields None.
DictGet(d, k, default) == IF k \in DOMAIN d THEN d[k] ELSE default

\* ------------------------------------------------------------ DatabaseLayer
\* SELECT version FROM values WHERE key = ? ORDER BY version DESC LIMIT 1 :
\* the highest version stored for the key, None when there is no row.
select_latest_version(tbl, key) == IF {r \in tbl : r.key = key} = {} THEN None ELSE CHOOSE v \in {r.version : r \in {q \in tbl : q.key = key}} : \A r \in tbl : r.key = key => r.version <= v

\* The dictionary DatabaseLayer.put returns.
db_put_result(tbl, key) ==
  LET result == select_latest_version(tbl, key)
  IN  IF result # None
      THEN [operation |-> "update", key |-> key, version |-> None,
            new_version |-> result + 1, previous_version |-> result]
      ELSE [operation |-> "create", key |-> key, version |-> 1,
            new_version |-> None, previous_version |-> None]

\* DatabaseLayer.put without the "+ 1": an update reuses the latest version.
db_put_values_same_version(tbl, key, value, now) ==
  LET result == select_latest_version(tbl, key)
      new_version == IF result # None THEN result ELSE 1
  IN  tbl \cup {[key |-> key, value |-> json_dumps(value),
                 version |-> new_version, timestamp |-> now]}

\* The values table after DatabaseLayer.put(key, value) at time now.
db_put_values(tbl, key, value, now) ==
  LET result == select_latest_version(tbl, key)
      new_version == IF result # None THEN result + 1 ELSE 1
  IN  tbl \cup {[key |-> key, value |-> json_dumps(value),
                 version |-> new_version, timestamp |-> now]}

\* The keys table after DatabaseLayer.put(key, value) at time now.
db_put_keys(kt, tbl, key, now) ==
  IF select_latest_version(tbl, key) # None
  THEN [k \in DOMAIN kt |-> IF k = key THEN [kt[k] EXCEPT !.updated_at = now] ELSE kt[k]]
  ELSE [k \in DOMAIN kt \cup {key} |->
          IF k = key THEN [created_at |-> now, updated_at |-> now] ELSE kt[k]]

\* DatabaseLayer.get answering every query with the latest row of the key.
db_get_latest_only(tbl, key, version) ==
  LET rows == {r \in tbl : r.key = key /\ \A q \in tbl : q.key = key => q.version <= r.version}
  IN  {[value |-> json_loads(r.value), version |-> r.version, timestamp |-> r.timestamp] : r \in rows}

\* DatabaseLayer.get(key, version): the rows fetchone() may return, as result
\* dictionaries; the empty set when the query has no row (get returns None).
db_get(tbl, key, version) ==
  LET rows == IF version = None
              THEN {r \in tbl : r.key = key /\ \A q \in tbl : q.key = key => q.version <= r.version}
              ELSE {r \in tbl : r.key = key /\ r.version = version}
  IN  {[value |-> json_loads(r.value), version |-> r.version, timestamp |-> r.timestamp] : r \in rows}

\* --------------------------------------------------- VersionedKeyValueStore
\* VersionedValue.__init__ at time now.
VersionedValue(value, version, now) == [value |-> value, version |-> IF version # None THEN version ELSE 1, timestamp |-> now]

\* VersionedValue.to_pydantic / VersionedValueResponse.
to_pydantic(v, source) == [found |-> TRUE, value |-> v.value, version |-> v.version, timestamp |-> v.timestamp, source |-> source]

\* get returning None.
NotFound == [found |-> FALSE, value |-> None, version |-> None, timestamp |-> None, source |-> "None"]

\* No PutResponse: the last operation was not a put.
NoPut == [operation |-> "None", key |-> "None", version |-> None, new_version |-> None, previous_version |-> None, total_versions |-> None]

\* How a get(key, version) relates to the operation r before it (history):
\* it follows a put to its key, or repeats a get the database answered.
Follows(r, key, version) ==
  IF r.op = "put" /\ r.key = key THEN "put"
  ELSE IF r.op = "get" /\ r.key = key /\ r.version = version /\ r.get.source = "database" THEN "database get"
  ELSE "other"

\* _should_evict with > for >= : the cache may hold one key too many.
should_evict_past_capacity(st) == Cardinality(DOMAIN st) > max_cache_size

\* _should_evict
should_evict(st) == Cardinality(DOMAIN st) >= max_cache_size

\* The eviction test without "key not in self._store": a full cache evicts on
\* every insertion, also one into an entry it already holds.
evict_on_any_insert(key, st) == Cardinality(DOMAIN st) >= max_cache_size

\* The condition under which put and _get_from_database call _evict_lru.
evict_before_insert(key, st) == key \notin DOMAIN st /\ should_evict(st)

\* The assignment that takes the key out of the dict and puts it last.
set_access_time_last(at, key, t) ==
  Append(SelectSeq(at, LAMBDA e : e.key # key), [key |-> key, time |-> t])

\* self._access_times[key] = t : a dict keeps the position of a key it
\* already holds and puts a new key last.
set_access_time(at, key, t) ==
  IF \E i \in 1 .. Len(at) : at[i].key = key
  THEN [i \in 1 .. Len(at) |-> IF at[i].key = key THEN [key |-> key, time |-> t] ELSE at[i]]
  ELSE Append(at, [key |-> key, time |-> t])

\* max for min: the most recently accessed key is chosen.
mru_key(at) ==
  LET i == CHOOSE i \in 1 .. Len(at) :
             /\ \A j \in 1 .. Len(at) : at[i].time >= at[j].time
             /\ \A j \in 1 .. (i - 1) : at[j].time < at[i].time
  IN  at[i].key

\* min(self._access_times.keys(), key=...): the first key, in the order of the
\* dict, among those with the smallest access time.
lru_key(at) ==
  LET i == CHOOSE i \in 1 .. Len(at) :
             /\ \A j \in 1 .. Len(at) : at[i].time <= at[j].time
             /\ \A j \in 1 .. (i - 1) : at[j].time > at[i].time
  IN  at[i].key

\* _evict_lru: its return value, None (here "None") when the index is empty.
evict_lru(at) == IF Len(at) = 0 THEN "None" ELSE lru_key(at)

\* _evict_lru on the cache.
evict_lru_store(st, at) == [k \in DOMAIN st \ {evict_lru(at)} |-> st[k]]

\* _evict_lru on the access index.
evict_lru_times(at) == SelectSeq(at, LAMBDA e : e.key # evict_lru(at))

\* The insertion that caches a record only under a key not cached yet.
cache_insert_new_key_only(st, key, versioned_value) ==
  IF key \in DOMAIN st
  THEN st
  ELSE [k \in DOMAIN st \cup {key} |-> IF k = key THEN <<versioned_value>> ELSE st[k]]

\* The append-or-create that put and _get_from_database end the insertion with.
cache_insert(st, key, versioned_value) ==
  IF key \in DOMAIN st
  THEN [st EXCEPT ![key] = Append(@, versioned_value)]
  ELSE [k \in DOMAIN st \cup {key} |-> IF k = key THEN <<versioned_value>> ELSE st[k]]

\* The length of the entry read before the record is appended to it.
len_before_append(current_versions) == Len(current_versions) - 1

\* total_versions=len(current_versions), the entry of the key after the append.
len_current_versions(current_versions) == Len(current_versions)

\* versions[0] for versions[-1].
oldest(versions) == versions[1]

\* latest = versions[-1]
latest(versions) == versions[Len(versions)]

\* The search that looks at the last record of the entry only.
find_version_last_only(versions, version) ==
  IF versions[Len(versions)].version = version THEN {versions[Len(versions)]} ELSE {}

\* for v in versions: if v.version == version: return v  -- the first match, as
\* a set with at most one element.
find_version(versions, version) ==
  LET hits == {i \in 1 .. Len(versions) : versions[i].version = version}
  IN  IF hits = {} THEN {} ELSE {versions[CHOOSE i \in hits : \A j \in hits : i <= j]}

\* The order of last accesses (history, not program state): key becomes the
\* most recently accessed of the cached keys `cached`.
touch(rec, key, cached) == SelectSeq(rec, LAMBDA k : k # key /\ k \in cached) \o <<key>>

\* ------------------------------------------------------------------- state
\* VersionedKeyValueStore.__init__ on a new database file.
StoreInit ==
  /\ values_table = {}
  /\ keys_table = <<>>
  /\ store = <<>>
  /\ access_times = <<>>
  /\ clock = 0
  /\ resp = [op |-> "init", key |-> "None", value |-> None, version |-> None,
             put |-> NoPut, get |-> NotFound, evicted |-> "None", follows |-> "other"]
  /\ put_count = [k \in Keys |-> 0]
  /\ recency = <<>>

\* VersionedKeyValueStore.put(key, value)
Put(key, value) ==
  \E t1 \in time_time(clock) : \E t2 \in time_time(t1) : \E t3 \in time_time(t2) :
       LET db_result == db_put_result(values_table, key)
           operation == db_result.operation
           new_version == DictGet(db_result, "new_version", DictGet(db_result, "version", None))
           previous_version == DictGet(db_result, "previous_version", None)
           evict == evict_before_insert(key, store)
           store1 == IF evict THEN evict_lru_store(store, access_times) ELSE store
           times1 == IF evict THEN evict_lru_times(access_times) ELSE access_times
           versioned_value == VersionedValue(value, new_version, t3)
           store2 == cache_insert(store1, key, versioned_value)
           response == IF key \in DOMAIN store1
                       THEN [operation |-> operation, key |-> key, version |-> None,
                             new_version |-> new_version,
                             previous_version |-> previous_version,
                             total_versions |-> len_current_versions(store2[key])]
                       ELSE [operation |-> operation, key |-> key,
                             version |-> IF operation = "create" THEN new_version ELSE None,
                             new_version |-> IF operation = "update" THEN new_version ELSE None,
                             previous_version |-> previous_version,
                             total_versions |-> 1]
       IN  /\ values_table' = db_put_values(values_table, key, value, t2)
           /\ keys_table' = db_put_keys(keys_table, values_table, key, t2)
           /\ store' = store2
           /\ access_times' = set_access_time(times1, key, t1)
           /\ clock' = t3
           /\ resp' = [op |-> "put", key |-> key, value |-> value, version |-> None,
                       put |-> response, get |-> NotFound,
                       evicted |-> IF evict THEN evict_lru(access_times) ELSE "None",
                       follows |-> "other"]
           /\ put_count' = [put_count EXCEPT ![key] = @ + 1]
           /\ recency' = touch(recency, key, DOMAIN store2)

\* VersionedKeyValueStore._get_from_database(key, version), entered with the
\* access index `times` and the last clock reading `clk`.  The timestamp the
\* VersionedValue constructor reads is overwritten by the row's at once.
get_from_database(key, version, times, clk) ==
  LET results == db_get(values_table, key, version)
  IN  IF results = {}
      THEN /\ store' = store
           /\ access_times' = times
           /\ clock' = clk
           /\ resp' = [op |-> "get", key |-> key, value |-> None, version |-> version,
                       put |-> NoPut, get |-> NotFound, evicted |-> "None",
                       follows |-> Follows(resp, key, version)]
           /\ recency' = IF key \in DOMAIN store THEN touch(recency, key, DOMAIN store) ELSE recency
      ELSE \E db_result \in results : \E current_time \in time_time(clk) :
             LET db_version == IF db_result.version = None THEN 1 ELSE db_result.version
                 versioned_response == [found |-> TRUE, value |-> db_result.value,
                                        version |-> db_version,
                                        timestamp |-> db_result.timestamp,
                                        source |-> "database"]
                 evict == evict_before_insert(key, store)
                 store1 == IF evict THEN evict_lru_store(store, times) ELSE store
                 times1 == IF evict THEN evict_lru_times(times) ELSE times
                 versioned_value == [VersionedValue(db_result.value, db_version, current_time)
                                       EXCEPT !.timestamp = db_result.timestamp]
                 store2 == cache_insert(store1, key, versioned_value)
             IN  /\ store' = store2
                 /\ access_times' = set_access_time(times1, key, current_time)
                 /\ clock' = current_time
                 /\ resp' = [op |-> "get", key |-> key, value |-> None, version |-> version,
                             put |-> NoPut, get |-> versioned_response,
                             evicted |-> IF evict THEN evict_lru(times) ELSE "None",
                             follows |-> Follows(resp, key, version)]
                 /\ recency' = touch(recency, key, DOMAIN store2)

\* VersionedKeyValueStore.get(key, version)
Get(key, version) ==
  /\ UNCHANGED <<values_table, keys_table, put_count>>
  /\ IF key \in DOMAIN store
     THEN \E t1 \in time_time(clock) :
            LET times1 == set_access_time(access_times, key, t1)
                versions == store[key]
                cached == IF version = None THEN {latest(versions)} ELSE find_version(versions, version)
            IN  IF cached # {}
                THEN /\ store' = store
                     /\ access_times' = times1
                     /\ clock' = t1
                     /\ resp' = [op |-> "get", key |-> key, value |-> None, version |-> version,
                                 put |-> NoPut,
                                 get |-> to_pydantic(CHOOSE v \in cached : TRUE, "cache"),
                                 evicted |-> "None", follows |-> Follows(resp, key, version)]
                     /\ recency' = touch(recency, key, DOMAIN store)
                ELSE get_from_database(key, version, times1, t1)
     ELSE get_from_database(key, version, access_times, clock)

\* The node process is stopped and started again: VersionedKeyValueStore is
\* constructed anew with an empty cache, and DatabaseLayer opens the database
\* file it finds (CREATE TABLE IF NOT EXISTS keeps the rows).
Restart ==
  /\ store' = <<>>
  /\ access_times' = <<>>
  /\ recency' = <<>>
  /\ resp' = [op |-> "restart", key |-> "None", value |-> None, version |-> None,
              put |-> NoPut, get |-> NotFound, evicted |-> "None", follows |-> "other"]
  /\ UNCHANGED <<values_table, keys_table, clock, put_count>>

\* The keys and values the clients send next.  The store never inspects a
\* key or a value, so the clients introduce keys in a fixed order (a key not
\* written so far is the first unwritten one of KeyOrder) and every put writes
\* a JSON number no earlier put wrote.
KeyOrder == <<"A", "B", "C">>

WrittenKeys == DOMAIN keys_table

NextKeys == WrittenKeys \cup {KeyOrder[i] : i \in {j \in 1 .. Len(KeyOrder) : KeyOrder[j] \notin WrittenKeys /\ \A h \in 1 .. (j - 1) : KeyOrder[h] \in WrittenKeys}}

NextValues == {Cardinality(values_table) + 1}

\* The version argument of a get: omitted, a version persisted for the key, or
\* the first version not persisted (every such version is looked up alike).
VersionArgs(key) == {None} \cup {v \in 1 .. MaxVersion + 1 : v = 1 \/ v - 1 \in {r.version : r \in {q \in values_table : q.key = key}}}

\* The bound on the puts of a run: at most MaxVersion versions of a key and at
\* most `limit` puts in all.
WithinBounds(key, limit) ==
  /\ select_latest_version(values_table, key) < MaxVersion
  /\ Cardinality(values_table) < limit


\* ------------------------------------------------------------ ConsistentHash
\* The nodes a ring is given, and the order in which their names are told
\* apart below.
Servers == {"s1", "s2", "s3"}

ServerOrder == <<"s1", "s2", "s3">>

\* ConsistentHash.virtual_nodes, the constructor's argument.
virtual_nodes == 1

\* f"{server}#{i}"
virtual_key(server, i) == server \o "#" \o ToString(i)

VirtualKeys == {virtual_key(server, i) : server \in Servers, i \in 0 .. (virtual_nodes - 1)}

\* The keys the clients ask the ring for: an ordinary key and a key that
\* reads like a virtual node.
RouteKeys == {"k1", "s1#0"}

\* Every string that is hashed.
Names == VirtualKeys \cup RouteKeys

\* The hash values in use.  Only their order matters to the ring, so the
\* SHA-256 value of a string is its rank among those of Names.
HashValues == 1 .. Cardinality(Names)

\* The functions _hash may be: different strings have different SHA-256
\* values.  The ring reads a node name and the number of a virtual node only
\* to form the virtual keys, so the virtual nodes of a node lie in the order
\* of their numbers and the first virtual nodes of the nodes in the order of
\* ServerOrder.
HashFunctions == {h \in [Names -> HashValues] : (\A a, b \in Names : a # b => h[a] # h[b]) /\ (\A server \in Servers : \A i, j \in 0 .. (virtual_nodes - 1) : i < j => h[virtual_key(server, i)] < h[virtual_key(server, j)]) /\ (\A i, j \in 1 .. Len(ServerOrder) : i < j => h[virtual_key(ServerOrder[i], 0)] < h[virtual_key(ServerOrder[j], 0)])}

\* _hash
hash(key) == hash_of[key]

\* bisect.insort(sorted_keys, hash_value): after the entries that are <= it.
insort(keys, hash_value) ==
  LET n == Cardinality({i \in 1 .. Len(keys) : keys[i] <= hash_value})
  IN  SubSeq(keys, 1, n) \o <<hash_value>> \o SubSeq(keys, n + 1, Len(keys))

\* bisect.bisect_left(sorted_keys, key_hash): the number of entries before
\* the first one that is >= key_hash (bisection, on a sorted list).
bisect_left(keys, key_hash) == Cardinality({i \in 1 .. Len(keys) : keys[i] < key_hash})

\* self.sorted_keys.pop() for self.sorted_keys.remove(hash_value): the last
\* entry goes.
list_remove_last(keys, hash_value) == SubSeq(keys, 1, Len(keys) - 1)

\* list.remove(hash_value): the first occurrence goes.
list_remove(keys, hash_value) ==
  LET i == CHOOSE i \in 1 .. Len(keys) : keys[i] = hash_value /\ \A j \in 1 .. (i - 1) : keys[j] # hash_value
  IN  SubSeq(keys, 1, i - 1) \o SubSeq(keys, i + 1, Len(keys))

\* self.ring[hash_value] = server
dict_set(d, k, v) == [x \in DOMAIN d \cup {k} |-> IF x = k THEN v ELSE d[x]]

\* del self.ring[hash_value]
dict_del(d, k) == [x \in DOMAIN d \ {k} |-> d[x]]

\* One turn of the loop of add_server, on r = [ring, sorted_keys].
add_virtual_node(r, server, i) ==
  LET hash_value == hash(virtual_key(server, i))
  IN  [ring |-> dict_set(r.ring, hash_value, server), sorted_keys |-> insort(r.sorted_keys, hash_value)]

RECURSIVE add_server_from(_, _, _)
\* The turns i, i + 1, ... of the loop of add_server.
add_server_from(r, server, i) ==
  IF i >= virtual_nodes THEN r ELSE add_server_from(add_virtual_node(r, server, i), server, i + 1)

\* add_server
add_server(r, server) == add_server_from(r, server, 0)

\* keys_to_remove of remove_server, as a set (the order of the removals does
\* not change their outcome).
keys_to_remove(r, server) == {hash_value \in DOMAIN r.ring : r.ring[hash_value] = server}

RECURSIVE remove_keys(_, _)
\* The second loop of remove_server.
remove_keys(r, todo) ==
  IF todo = {}
  THEN r
  ELSE LET hash_value == CHOOSE h \in todo : \A g \in todo : h <= g
       IN  remove_keys([ring |-> dict_del(r.ring, hash_value), sorted_keys |-> list_remove(r.sorted_keys, hash_value)], todo \ {hash_value})

\* remove_server
remove_server(r, server) == remove_keys(r, keys_to_remove(r, server))

\* get_server that takes the entry before the one bisect_left finds.
get_server_predecessor(r, key) ==
  IF r.sorted_keys = <<>>
  THEN "None"
  ELSE LET found_index == bisect_left(r.sorted_keys, hash(key))
           index == IF found_index = 0 THEN Len(r.sorted_keys) - 1 ELSE found_index - 1
           hash_value == r.sorted_keys[index + 1]
       IN  IF hash_value \in DOMAIN r.ring THEN r.ring[hash_value] ELSE "KeyError"

\* get_server: a node, "None" for None, "KeyError" when self.ring[hash_value]
\* raises it.
get_server(r, key) ==
  IF r.sorted_keys = <<>>
  THEN "None"
  ELSE LET found_index == bisect_left(r.sorted_keys, hash(key))
           index == IF found_index = Len(r.sorted_keys) THEN 0 ELSE found_index
           hash_value == r.sorted_keys[index + 1]
       IN  IF hash_value \in DOMAIN r.ring THEN r.ring[hash_value] ELSE "KeyError"

RECURSIVE construct_ring(_, _)
\* The loop of ConsistentHash.__init__ over servers[i..].
construct_ring(r, list) ==
  IF list = <<>> THEN r ELSE construct_ring(add_server(r, Head(list)), Tail(list))

\* The ring as one value.
Ring == [ring |-> ring, sorted_keys |-> sorted_keys]

EmptyRing == [ring |-> <<>>, sorted_keys |-> <<>>]

\* No call on the ring so far.
NoLookup == [key |-> "None", server |-> "None"]

\* The bound on the add_server calls of a run: sorted_keys holds no more
\* than one entry for each virtual node of each node when a node is added, so
\* at most one node is in it twice.
RoomToAdd == Len(sorted_keys) <= Cardinality(Servers) * virtual_nodes

\* ConsistentHash.add_server(server)
AddServer(server) ==
  /\ ring' = add_server(Ring, server).ring
  /\ sorted_keys' = add_server(Ring, server).sorted_keys
  /\ found' = NoLookup
  /\ UNCHANGED <<hash_of, servers>>

\* ConsistentHash.remove_server(server)
RemoveServer(server) ==
  /\ ring' = remove_server(Ring, server).ring
  /\ sorted_keys' = remove_server(Ring, server).sorted_keys
  /\ found' = NoLookup
  /\ UNCHANGED <<hash_of, servers>>

\* ConsistentHash.get_server(key)
GetServer(key) ==
  /\ found' = [key |-> key, server |-> get_server(Ring, key)]
  /\ UNCHANGED <<hash_of, servers, ring, sorted_keys>>

\* ------------------------------------------------------------- LoadBalancer
\* A request path as its segments between the slashes: "put/k1" is
\* <<"put", "k1">>, "put/" is <<"put", "">>, "health" is <<"health">>.
Paths == {<<"put", "k1">>, <<"get", "s1#0">>, <<"put", "">>, <<"get">>, <<"cache", "stats">>, <<"db", "stats">>, <<"health">>, <<"system", "stats">>}

\* The server query parameter: absent, empty, or a name.  "s9" names no node.
ServerParams == {"None", "", "s1", "s2", "s3", "s9"}

\* _extract_key_from_path: what follows "put/" or "get/", else None.  (The
\* paths above have one slash at most, so split("/", 1)[1] is the second
\* segment.)
extract_key_from_path(path) ==
  IF Len(path) >= 2 /\ path[1] \in {"put", "get"} THEN path[2] ELSE "None"

\* Python truth of an Optional[str]: None and "" are false.
truthy(str) == str \notin {"None", ""}

\* x in list
in_list(x, list) == \E i \in 1 .. Len(list) : list[i] = x

\* A return value and a raised exception of get_backend_url.
Url(server) == [ok |-> TRUE, url |-> "http://" \o server, error |-> "None"]

Raised(error) == [ok |-> FALSE, url |-> "None", error |-> error]

\* get_backend_url that checks the server parameter on no path.
get_backend_url_unchecked(path, server_param) ==
  LET key == extract_key_from_path(path)
  IN  IF truthy(key)
      THEN LET server == get_server(Ring, key)
           IN  IF server = "None" THEN Raised("No servers available in hash ring")
               ELSE IF server = "KeyError" THEN Raised("KeyError")
               ELSE Url(server)
      ELSE IF servers = <<>> THEN Raised("No servers configured")
           ELSE IF truthy(server_param) THEN Url(server_param)
           ELSE Url(servers[1])

\* LoadBalancer.get_backend_url(path, server_param)
get_backend_url(path, server_param) ==
  LET key == extract_key_from_path(path)
  IN  IF truthy(key)
      THEN LET server == get_server(Ring, key)
           IN  IF server = "None" THEN Raised("No servers available in hash ring")
               ELSE IF server = "KeyError" THEN Raised("KeyError")
               ELSE Url(server)
      ELSE IF path \in {<<"cache", "stats">>, <<"db", "stats">>}
           THEN IF servers = <<>> THEN Raised("No servers configured")
                ELSE IF ~truthy(server_param) THEN Raised("Server parameter is required")
                ELSE IF in_list(server_param, servers) THEN Url(server_param)
                ELSE Raised("Server not found")
           ELSE IF servers = <<>> THEN Raised("No servers configured")
                ELSE Url(servers[1])

\* No call of get_backend_url so far.
NoBackend == [path |-> <<>>, server_param |-> "None", result |-> Raised("None")]

\* The gateway resolves the target of a request.
GetBackendUrl(path, server_param) ==
  /\ backend' = [path |-> path, server_param |-> server_param, result |-> get_backend_url(path, server_param)]
  /\ UNCHANGED <<request_counts, latency_times, insights, forward>>

\* The number of latency measurements record_request keeps for a server.
latency_window == 50
\* Largest number of requests recorded over a run.
MaxRequests == 52

\* record_request that keeps the first measurements for the last.
trim_oldest_kept(list) ==
  IF Len(list) > latency_window THEN SubSeq(list, 1, latency_window) ELSE list

\* if len(l) > 50: l = l[-50:]
trim(list) ==
  IF Len(list) > latency_window THEN SubSeq(list, Len(list) - latency_window + 1, Len(list)) ELSE list

RECURSIVE sum(_)
\* sum(list)
sum(list) == IF list = <<>> THEN 0 ELSE Head(list) + sum(Tail(list))

\* round(num / den, 0) of Python 3: to the nearest integer, a tie to the even
\* one.
round_div(num, den) ==
  LET q == num \div den
      r == num % den
  IN  IF 2 * r < den THEN q ELSE IF 2 * r > den THEN q + 1 ELSE IF q % 2 = 0 THEN q ELSE q + 1

\* round(sum(l) / len(l), 2) for a non-empty list and 0 for an empty one, in
\* hundredths of a millisecond.
avg_latency_ms(list) == IF list = <<>> THEN 0 ELSE round_div(100 * sum(list), Len(list))

\* get_server_metrics, and the list of ServerMetrics main.py makes of it: one
\* entry for each configured server, in the order of the list.
server_metrics_list == [i \in 1 .. Len(servers) |-> [server_name |-> servers[i], request_count |-> request_counts[servers[i]], avg_latency_ms |-> avg_latency_ms(latency_times[servers[i]])]]

RECURSIVE sum_of(_, _)
\* sum(m.<field> for m in metrics)
sum_of(metrics, field) == IF metrics = <<>> THEN 0 ELSE Head(metrics)[field] + sum_of(Tail(metrics), field)

\* The hot-spot test with >= for > .
is_hot_spot_or_equal(metric, metrics) == 2 * Len(metrics) * metric.request_count >= 3 * sum_of(metrics, "request_count")

\* metric.request_count > (total_requests / len(server_metrics)) * 1.5 .  The
\* floating-point comparison agrees with this one in integers for every list
\* of up to 5 counts with a total up to 400.
is_hot_spot(metric, metrics) == 2 * Len(metrics) * metric.request_count > 3 * sum_of(metrics, "request_count")

\* metric.avg_latency_ms > avg_latency * 1.5
is_slow_server(metric, metrics) == 2 * Len(metrics) * metric.avg_latency_ms > 3 * sum_of(metrics, "avg_latency_ms")

\* hot_spots and slow_servers: the names of the servers that pass the test,
\* in the order of the list.
hot_spots(metrics) ==
  LET hits == SelectSeq(metrics, LAMBDA m : is_hot_spot(m, metrics))
  IN  [i \in 1 .. Len(hits) |-> hits[i].server_name]

slow_servers(metrics) ==
  LET hits == SelectSeq(metrics, LAMBDA m : is_slow_server(m, metrics))
  IN  [i \in 1 .. Len(hits) |-> hits[i].server_name]

\* monitoring.get_insights on the metrics main.py has just stored.
get_insights(metrics) ==
  IF metrics = <<>>
  THEN [error |-> "No metrics data available", total_requests |-> None, avg_latency_ms |-> None, hot_spots |-> <<>>, slow_servers |-> <<>>]
  ELSE [error |-> "None",
        total_requests |-> sum_of(metrics, "request_count"),
        avg_latency_ms |-> round_div(sum_of(metrics, "avg_latency_ms"), Len(metrics)),
        hot_spots |-> hot_spots(metrics),
        slow_servers |-> slow_servers(metrics)]

\* No call of get_insights since the last request.
NoInsights == [error |-> "not asked", total_requests |-> None, avg_latency_ms |-> None, hot_spots |-> <<>>, slow_servers |-> <<>>]

\* LoadBalancer.record_request(server, latency_ms)
RecordRequest(server, latency_ms) ==
  /\ request_counts' = [request_counts EXCEPT ![server] = @ + 1]
  /\ latency_times' = [latency_times EXCEPT ![server] = trim(Append(@, latency_ms))]
  /\ insights' = NoInsights
  /\ UNCHANGED <<backend, forward>>

\* GET /insights : get_load_balancer_insights of main.py
Insights ==
  /\ insights' = get_insights(server_metrics_list)
  /\ UNCHANGED <<request_counts, latency_times, backend, forward>>

\* The latency measured for the next request to a server.  record_request
\* never reads a measurement, so each is a number no earlier request to that
\* server measured.
NextLatencies(server) == {request_counts[server] + 1}

\* The requests recorded so far.
TotalRequests == sum([i \in 1 .. Len(ServerOrder) |-> request_counts[ServerOrder[i]]])

\* ------------------------------------------------------- forward_request
\* Largest number of requests the gateway forwards over a run.
MaxForwards == 3

\* What becomes of a request once its node is resolved: the node answers and
\* the answer is handed on; client.request raises (the node is down, or it
\* does not answer within the timeout); the node answers with the content
\* type application/json and a body response.json() cannot parse.
Outcomes == {"answered", "request raised", "json raised"}

\* The statuses of the gateway's answers: the node's own, 500 from the except
\* block of the upstream call, 503 from the except block of the routing.
upstream_status == 200

gateway_error == 500

no_servers_available == 503

\* No request forwarded yet.
NoForward == [status |-> None, server_name |-> "None", outcome |-> "None"]

\* server_name = backend_url.replace("http://", "")
server_name(backend_url) == CHOOSE server \in Servers : "http://" \o server = backend_url

\* record_request, on m = [request_counts, latency_times].
record_request(m, server, latency_ms) ==
  [request_counts |-> [m.request_counts EXCEPT ![server] = @ + 1],
   latency_times |-> [m.latency_times EXCEPT ![server] = trim(Append(@, latency_ms))]]

\* The metrics after the second try block of forward_request.  The call at
\* line 87 is inside the try block, so an exception raised after it is
\* caught by the same except block, which records the request again.
recorded(m, server, outcome) ==
  LET after_response == IF outcome = "request raised" THEN m ELSE record_request(m, server, m.request_counts[server] + 1)
  IN  IF outcome = "answered"
      THEN after_response
      ELSE record_request(after_response, server, after_response.request_counts[server] + 1)

\* forward_request(request, path)
ForwardRequest(path, server_param, outcome) ==
  LET result == get_backend_url(path, server_param)
      m == [request_counts |-> request_counts, latency_times |-> latency_times]
  IN  /\ backend' = [path |-> path, server_param |-> server_param, result |-> result]
      /\ IF ~result.ok
         THEN /\ forward' = [status |-> no_servers_available, server_name |-> "None", outcome |-> "None"]
              /\ UNCHANGED <<request_counts, latency_times, insights>>
         ELSE /\ forward' = [status |-> IF outcome = "answered" THEN upstream_status ELSE gateway_error,
                             server_name |-> server_name(result.url), outcome |-> outcome]
              /\ request_counts' = recorded(m, server_name(result.url), outcome).request_counts
              /\ latency_times' = recorded(m, server_name(result.url), outcome).latency_times
              /\ insights' = NoInsights

\* ------------------------------------------------- the threads of the node
\* The threads that serve the requests of one node, one request each.
Threads == {"t1", "t2", "t3"}

\* The statements a thread executes while it holds the lock of the store.
Body == {"put_select", "put_insert", "put_cache", "get_body"}

\* The locals of a thread that serves no request.
NoFrame == [op |-> "None", key |-> "None", value |-> None, version |-> None, result |-> None, current_time |-> None, db_time |-> None]

\* The dictionary DatabaseLayer.put returns, from the row its SELECT fetched.
db_put_returns(result, key) ==
  IF result # None
  THEN [operation |-> "update", key |-> key, version |-> None,
        new_version |-> result + 1, previous_version |-> result]
  ELSE [operation |-> "create", key |-> key, version |-> 1,
        new_version |-> None, previous_version |-> None]

\* A lock that every thread may take at any time.
lock_unguarded(owner, t) == TRUE

\* threading.RLock.acquire by thread t: the lock is free, or t holds it.
lock_available(owner, t) == owner \in {"None", t}

\* A with block that leaves the lock with its owner.
lock_kept(owner, t) == owner

\* with self._lock: on exit, by a return or by an exception: the thread
\* entered the block once, so the lock is free again.
lock_release(owner, t) == "None"

\* A thread takes a request: put_value or get_value calls the store.
Call(t, op, key, value, version) ==
  /\ pc[t] = "idle"
  /\ pc' = [pc EXCEPT ![t] = "acquire"]
  /\ frame' = [frame EXCEPT ![t] = [NoFrame EXCEPT !.op = op, !.key = key, !.value = value, !.version = version]]
  /\ UNCHANGED <<lock, store_vars>>

\* with self._lock: on entry
Acquire(t) ==
  /\ pc[t] = "acquire"
  /\ lock_available(lock, t)
  /\ lock' = t
  /\ pc' = [pc EXCEPT ![t] = IF frame[t].op = "put" THEN "put_select" ELSE "get_body"]
  /\ UNCHANGED <<frame, store_vars>>

\* put, up to the SELECT of DatabaseLayer.put: the two readings of the clock
\* and the latest version persisted for the key.
PutSelect(t) ==
  /\ pc[t] = "put_select"
  /\ \E t1 \in time_time(clock) : \E t2 \in time_time(t1) :
       /\ frame' = [frame EXCEPT ![t].current_time = t1, ![t].db_time = t2,
                                 ![t].result = select_latest_version(values_table, frame[t].key)]
       /\ clock' = t2
  /\ pc' = [pc EXCEPT ![t] = "put_insert"]
  /\ UNCHANGED <<lock, values_table, keys_table, store, access_times, resp, put_count, recency>>

\* DatabaseLayer.put from the INSERT to the commit, with the version computed
\* from the row the SELECT fetched.
PutInsert(t) ==
  /\ pc[t] = "put_insert"
  /\ LET key == frame[t].key
         result == frame[t].result
         new_version == IF result # None THEN result + 1 ELSE 1
     IN  /\ values_table' = values_table \cup {[key |-> key, value |-> json_dumps(frame[t].value),
                                               version |-> new_version, timestamp |-> frame[t].db_time]}
         /\ keys_table' = db_put_keys(keys_table, values_table, key, frame[t].db_time)
         /\ put_count' = [put_count EXCEPT ![key] = @ + 1]
  /\ pc' = [pc EXCEPT ![t] = "put_cache"]
  /\ UNCHANGED <<lock, frame, store, access_times, clock, resp, recency>>

\* DatabaseLayer.put raises at its INSERT (the value has no JSON text, the
\* disk is full, the file is locked): sqlite3's connection block rolls the
\* transaction back, the exception leaves put through its with block and
\* reaches the caller of put.
PutRaise(t) ==
  /\ pc[t] = "put_insert"
  /\ lock' = lock_release(lock, t)
  /\ pc' = [pc EXCEPT ![t] = "raised"]
  /\ frame' = [frame EXCEPT ![t] = NoFrame]
  /\ UNCHANGED store_vars

\* put, from the eviction test to its return, where the lock is released.
PutCache(t) ==
  /\ pc[t] = "put_cache"
  /\ \E t3 \in time_time(clock) :
       LET key == frame[t].key
           value == frame[t].value
           db_result == db_put_returns(frame[t].result, key)
           operation == db_result.operation
           new_version == DictGet(db_result, "new_version", DictGet(db_result, "version", None))
           previous_version == DictGet(db_result, "previous_version", None)
           evict == evict_before_insert(key, store)
           store1 == IF evict THEN evict_lru_store(store, access_times) ELSE store
           times1 == IF evict THEN evict_lru_times(access_times) ELSE access_times
           versioned_value == VersionedValue(value, new_version, t3)
           store2 == cache_insert(store1, key, versioned_value)
           response == IF key \in DOMAIN store1
                       THEN [operation |-> operation, key |-> key, version |-> None,
                             new_version |-> new_version,
                             previous_version |-> previous_version,
                             total_versions |-> len_current_versions(store2[key])]
                       ELSE [operation |-> operation, key |-> key,
                             version |-> IF operation = "create" THEN new_version ELSE None,
                             new_version |-> IF operation = "update" THEN new_version ELSE None,
                             previous_version |-> previous_version,
                             total_versions |-> 1]
       IN  /\ store' = store2
           /\ access_times' = set_access_time(times1, key, frame[t].current_time)
           /\ clock' = t3
           /\ resp' = [op |-> "put", key |-> key, value |-> value, version |-> None,
                       put |-> response, get |-> NotFound,
                       evicted |-> IF evict THEN evict_lru(access_times) ELSE "None",
                       follows |-> "other"]
           /\ recency' = touch(recency, key, DOMAIN store2)
  /\ lock' = lock_release(lock, t)
  /\ pc' = [pc EXCEPT ![t] = "done"]
  /\ frame' = [frame EXCEPT ![t] = NoFrame]
  /\ UNCHANGED <<values_table, keys_table, put_count>>

\* get, from the cache lookup to its return, where the lock is released.
GetBody(t) ==
  /\ pc[t] = "get_body"
  /\ Get(frame[t].key, frame[t].version)
  /\ lock' = lock_release(lock, t)
  /\ pc' = [pc EXCEPT ![t] = "done"]
  /\ frame' = [frame EXCEPT ![t] = NoFrame]

\* -------------------------------------- threads of the gateway on the ring
\* A thread that is in no call on the ring.
NoMutator == [pc |-> "idle", server |-> "None", todo |-> {}, hash_value |-> None, before |-> EmptyRing]

\* rings (history): the rings the call could have found had it run alone, the
\* one before and the one after each remove_server it ran beside.
NoReader == [pc |-> "idle", key |-> "None", index |-> None, hash_value |-> None, result |-> "None", rings |-> {}]

\* remove_server(server), first loop: the hash values the ring maps to the
\* server.
StartRemove(server) ==
  /\ mutator.pc = "idle"
  /\ mutator' = [pc |-> IF keys_to_remove(Ring, server) = {} THEN "idle" ELSE "del",
                 server |-> server, todo |-> keys_to_remove(Ring, server),
                 hash_value |-> None, before |-> Ring]
  /\ reader' = [reader EXCEPT !.rings = IF reader.pc = "idle" THEN {} ELSE @ \cup {remove_server(Ring, server)}]
  /\ UNCHANGED <<ring_vars>>

\* remove_server, second loop: del self.ring[hash_value]
DelRing ==
  /\ mutator.pc = "del"
  /\ LET hash_value == CHOOSE h \in mutator.todo : \A g \in mutator.todo : h <= g
     IN  /\ ring' = dict_del(ring, hash_value)
         /\ mutator' = [mutator EXCEPT !.pc = "list_remove", !.hash_value = hash_value]
  /\ UNCHANGED <<hash_of, servers, sorted_keys, found, reader>>

\* remove_server, second loop: self.sorted_keys.remove(hash_value)
ListRemove ==
  /\ mutator.pc = "list_remove"
  /\ sorted_keys' = list_remove(sorted_keys, mutator.hash_value)
  /\ LET todo == mutator.todo \ {mutator.hash_value}
     IN  mutator' = [mutator EXCEPT !.pc = IF todo = {} THEN "idle" ELSE "del", !.todo = todo, !.hash_value = None]
  /\ UNCHANGED <<hash_of, servers, ring, found, reader>>

\* get_server(key), line 38: if not self.sorted_keys: return None
StartGet(key) ==
  /\ reader.pc = "idle"
  /\ LET rings == IF mutator.pc = "idle"
                  THEN {Ring}
                  ELSE {mutator.before, remove_server(mutator.before, mutator.server)}
     IN  reader' = IF sorted_keys = <<>>
                   THEN [NoReader EXCEPT !.key = key, !.pc = "done", !.result = "None", !.rings = rings]
                   ELSE [NoReader EXCEPT !.key = key, !.pc = "bisect", !.rings = rings]
  /\ UNCHANGED <<ring_vars, mutator>>

\* index = bisect.bisect_left(self.sorted_keys, key_hash)
Bisect ==
  /\ reader.pc = "bisect"
  /\ reader' = [reader EXCEPT !.pc = "wrap", !.index = bisect_left(sorted_keys, hash(reader.key))]
  /\ UNCHANGED <<ring_vars, mutator>>

\* if index == len(self.sorted_keys): index = 0
Wrap ==
  /\ reader.pc = "wrap"
  /\ reader' = [reader EXCEPT !.pc = "index", !.index = IF reader.index = Len(sorted_keys) THEN 0 ELSE reader.index]
  /\ UNCHANGED <<ring_vars, mutator>>

\* hash_value = self.sorted_keys[index]
Index ==
  /\ reader.pc = "index"
  /\ reader' = IF reader.index < Len(sorted_keys)
               THEN [reader EXCEPT !.pc = "ring", !.hash_value = sorted_keys[reader.index + 1]]
               ELSE [reader EXCEPT !.pc = "done", !.result = "IndexError"]
  /\ UNCHANGED <<ring_vars, mutator>>

\* return self.ring[hash_value]
RingRead ==
  /\ reader.pc = "ring"
  /\ reader' = [reader EXCEPT !.pc = "done",
                              !.result = IF reader.hash_value \in DOMAIN ring THEN ring[reader.hash_value] ELSE "KeyError"]
  /\ UNCHANGED <<ring_vars, mutator>>

\* The caller of get_server has its answer.
Return ==
  /\ reader.pc = "done"
  /\ reader' = NoReader
  /\ UNCHANGED <<ring_vars, mutator>>

\* ----------------------------------------------------------- specifications
\* No thread of the node serves a request.
ThreadInit ==
  /\ lock = "None"
  /\ pc = [t \in Threads |-> "idle"]
  /\ frame = [t \in Threads |-> NoFrame]

\* ConsistentHash(list): the ring of the servers of the list, for the hash
\* function h.
RingInit(h, list) ==
  /\ hash_of = h
  /\ servers = list
  /\ ring = construct_ring(EmptyRing, list).ring
  /\ sorted_keys = construct_ring(EmptyRing, list).sorted_keys
  /\ found = NoLookup

\* LoadBalancer.__init__ : no request recorded (the two defaultdicts).
BalancerInit ==
  /\ request_counts = [server \in Servers |-> 0]
  /\ latency_times = [server \in Servers |-> <<>>]
  /\ backend = NoBackend
  /\ insights = NoInsights
  /\ forward = NoForward

\* No thread is in a call on the ring.
RaceInit ==
  /\ mutator = NoMutator
  /\ reader = NoReader

\* One hash function: the names in the order of their virtual keys, and the
\* key k1 last.
SomeHash == CHOOSE h \in HashFunctions : \A n \in Names : h["k1"] >= h[n]

\* The lists of servers a gateway is configured with.
ServerLists == {<<>>, <<"s1", "s2">>}

\* The gateway as it stands while the specifications of the node run.
GatewayInit == RingInit(SomeHash, <<"s1", "s2">>) /\ BalancerInit /\ RaceInit

gateway_vars == <<ring_vars, balancer_vars, race_vars>>

Init == StoreInit /\ ThreadInit /\ GatewayInit

Next ==
  \/ Restart /\ UNCHANGED <<thread_vars, gateway_vars>>
  \/ \E key \in NextKeys, value \in NextValues : WithinBounds(key, MaxPuts) /\ Put(key, value) /\ UNCHANGED <<thread_vars, gateway_vars>>
  \/ \E key \in NextKeys : \E version \in VersionArgs(key) : Get(key, version) /\ UNCHANGED <<thread_vars, gateway_vars>>

Spec == Init /\ [][Next]_vars

\* The node is never restarted, so that a key leaves the cache by eviction
\* alone, which takes a put to each of max_cache_size other keys: the runs are
\* one put longer.
NextPutGet ==
  \/ \E key \in NextKeys, value \in NextValues : WithinBounds(key, MaxPuts + 1) /\ Put(key, value) /\ UNCHANGED <<thread_vars, gateway_vars>>
  \/ \E key \in NextKeys : \E version \in VersionArgs(key) : Get(key, version) /\ UNCHANGED <<thread_vars, gateway_vars>>

SpecPutGet == Init /\ [][NextPutGet]_vars

\* The requests of the node served by its threads.
NextThreads ==
  \/ \E t \in Threads : \E key \in NextKeys, value \in NextValues : WithinBounds(key, MaxPuts) /\ Call(t, "put", key, value, None) /\ UNCHANGED gateway_vars
  \/ \E t \in Threads : \E key \in NextKeys : Call(t, "get", key, None, None) /\ UNCHANGED gateway_vars
  \/ \E t \in Threads : Acquire(t) /\ UNCHANGED gateway_vars
  \/ \E t \in Threads : PutSelect(t) /\ UNCHANGED gateway_vars
  \/ \E t \in Threads : PutInsert(t) /\ UNCHANGED gateway_vars
  \/ \E t \in Threads : PutRaise(t) /\ UNCHANGED gateway_vars
  \/ \E t \in Threads : PutCache(t) /\ UNCHANGED gateway_vars
  \/ \E t \in Threads : GetBody(t) /\ UNCHANGED gateway_vars

SpecThreads == Init /\ [][NextThreads]_vars

\* A ring on which add_server, remove_server and get_server are called, one
\* call after the other.
InitRing ==
  /\ StoreInit /\ ThreadInit /\ BalancerInit /\ RaceInit
  /\ \E h \in HashFunctions : RingInit(h, <<"s1", "s2">>)

NextRing ==
  \/ \E server \in Servers : RoomToAdd /\ AddServer(server) /\ UNCHANGED <<store_vars, thread_vars, balancer_vars, race_vars>>
  \/ \E server \in Servers : RemoveServer(server) /\ UNCHANGED <<store_vars, thread_vars, balancer_vars, race_vars>>
  \/ \E key \in RouteKeys : GetServer(key) /\ UNCHANGED <<store_vars, thread_vars, balancer_vars, race_vars>>

SpecRing == InitRing /\ [][NextRing]_vars

\* The load balancer of a gateway resolving targets while nodes are added to
\* its ring and removed from it.
InitRouter ==
  /\ StoreInit /\ ThreadInit /\ BalancerInit /\ RaceInit
  /\ \E list \in ServerLists : RingInit(SomeHash, list)

NextRouter ==
  \/ \E server \in Servers : RoomToAdd /\ AddServer(server) /\ backend' = NoBackend /\ UNCHANGED <<request_counts, latency_times, insights, forward, store_vars, thread_vars, race_vars>>
  \/ \E server \in Servers : RemoveServer(server) /\ backend' = NoBackend /\ UNCHANGED <<request_counts, latency_times, insights, forward, store_vars, thread_vars, race_vars>>
  \/ \E path \in Paths, server_param \in ServerParams : GetBackendUrl(path, server_param) /\ UNCHANGED <<ring_vars, store_vars, thread_vars, race_vars>>

SpecRouter == InitRouter /\ [][NextRouter]_vars

\* The metrics of a gateway: requests are recorded for the servers it is
\* configured with, and its insights are asked for.
InitMetrics ==
  /\ StoreInit /\ ThreadInit /\ BalancerInit /\ RaceInit
  /\ \E list \in {<<>>, ServerOrder} : RingInit(SomeHash, list)

NextMetrics ==
  \/ \E server \in Servers : \E latency_ms \in NextLatencies(server) : in_list(server, servers) /\ TotalRequests < MaxRequests /\ RecordRequest(server, latency_ms) /\ UNCHANGED <<ring_vars, store_vars, thread_vars, race_vars>>
  \/ Insights /\ UNCHANGED <<ring_vars, store_vars, thread_vars, race_vars>>

SpecMetrics == InitMetrics /\ [][NextMetrics]_vars

\* The gateway forwards requests: each is routed, sent to its node and
\* recorded.
InitForward ==
  /\ StoreInit /\ ThreadInit /\ BalancerInit /\ RaceInit
  /\ \E list \in ServerLists : RingInit(SomeHash, list)

NextForward ==
  \E path \in Paths, server_param \in ServerParams, outcome \in Outcomes : TotalRequests < MaxForwards /\ ForwardRequest(path, server_param, outcome) /\ UNCHANGED <<ring_vars, store_vars, thread_vars, race_vars>>

SpecForward == InitForward /\ [][NextForward]_vars

\* One thread removes servers from the ring while another looks keys up.
InitRace ==
  /\ StoreInit /\ ThreadInit /\ BalancerInit /\ RaceInit
  /\ \E h \in HashFunctions : RingInit(h, ServerOrder)

NextRace ==
  \/ \E server \in Servers : StartRemove(server) /\ UNCHANGED <<store_vars, thread_vars, balancer_vars>>
  \/ DelRing /\ UNCHANGED <<store_vars, thread_vars, balancer_vars>>
  \/ ListRemove /\ UNCHANGED <<store_vars, thread_vars, balancer_vars>>
  \/ \E key \in RouteKeys : StartGet(key) /\ UNCHANGED <<store_vars, thread_vars, balancer_vars>>
  \/ Bisect /\ UNCHANGED <<store_vars, thread_vars, balancer_vars>>
  \/ Wrap /\ UNCHANGED <<store_vars, thread_vars, balancer_vars>>
  \/ Index /\ UNCHANGED <<store_vars, thread_vars, balancer_vars>>
  \/ RingRead /\ UNCHANGED <<store_vars, thread_vars, balancer_vars>>
  \/ Return /\ UNCHANGED <<store_vars, thread_vars, balancer_vars>>

SpecRace == InitRace /\ [][NextRace]_vars

\* ------------------------------------------------------------------ claims
\* The rows persisted for key k, and the access time and the position of a
\* cached key k in an access index.
RowsOf(k) == {r \in values_table : r.key = k}

TimeOf(at, k) == at[CHOOSE i \in 1 .. Len(at) : at[i].key = k].time

PositionOf(at, k) == CHOOSE i \in 1 .. Len(at) : at[i].key = k

\* C1: in every reachable state the cache holds at most max_cache_size keys.
CacheBound == Cardinality(DOMAIN store) <= max_cache_size

\* An insertion into a full cache has just evicted a key.
CacheBoundWitness == resp.evicted # "None" /\ Cardinality(DOMAIN store) = max_cache_size

\* C2: the result of the n-th put to a key carries the version number n, in
\* its version or its new_version field.
PutCarriesVersion ==
  resp.op = "put" =>
    (IF resp.put.version # None THEN resp.put.version ELSE resp.put.new_version) = put_count[resp.key]

\* C3: a get(k) with no version that immediately follows put(k, v) returns v,
\* the version persisted for that put (the latest of k), and source=cache.
RoundTrip ==
  [][(resp.op = "put" /\ resp'.op = "get" /\ resp'.key = resp.key /\ resp'.version = None)
       => /\ resp'.get.found
          /\ resp'.get.value = resp.value
          /\ resp'.get.source = "cache"
          /\ \E r \in RowsOf(resp.key) :
               /\ json_loads(r.value) = resp.value
               /\ r.version = resp'.get.version
               /\ \A q \in RowsOf(resp.key) : q.version <= r.version]_vars

\* The get after the second put of a key has returned version 2.
RoundTripWitness ==
  /\ resp.op = "get" /\ resp.follows = "put" /\ resp.version = None
  /\ resp.get.source = "cache" /\ resp.get.version = 2

\* C4: as claimed, the key evicted by an insertion into a full cache is the
\* cached key whose most recent access is the oldest.
EvictsLeastRecentlyAccessed ==
  [][(resp'.op \in {"put", "get"} /\ resp'.key \notin DOMAIN store /\ resp'.key \in DOMAIN store'
        /\ Cardinality(DOMAIN store) = max_cache_size)
       => DOMAIN store' = (DOMAIN store \ {Head(recency)}) \cup {resp'.key}]_vars

\* C4, as amended: an insertion of a key that is not cached into a full cache
\* evicts exactly one key, a key with the smallest last-access timestamp (the
\* one that comes first in the access index among equal timestamps), which is
\* the least recently accessed key when its timestamp is smaller than every
\* other; the whole entry goes and every other entry is left as it was.
EvictsOldestTimestamp ==
  [][(resp'.op \in {"put", "get"} /\ resp'.key \notin DOMAIN store /\ resp'.key \in DOMAIN store'
        /\ Cardinality(DOMAIN store) = max_cache_size)
       => \E e \in DOMAIN store :
            /\ DOMAIN store' = (DOMAIN store \ {e}) \cup {resp'.key}
            /\ e # resp'.key
            /\ \A i \in 1 .. Len(access_times') : access_times'[i].key # e
            /\ \A k \in DOMAIN store \ {e} :
                 /\ TimeOf(access_times, e) <= TimeOf(access_times, k)
                 /\ TimeOf(access_times, e) = TimeOf(access_times, k)
                      => PositionOf(access_times, e) < PositionOf(access_times, k)
                 /\ store'[k] = store[k]
                 /\ TimeOf(access_times', k) = TimeOf(access_times, k)
            /\ (\A k \in DOMAIN store \ {e} : TimeOf(access_times, e) < TimeOf(access_times, k))
                 => e = Head(recency)]_vars

\* put A, put B, get A, put C has evicted B and kept A.
EvictsOldestTimestampWitness ==
  /\ resp.op = "put" /\ resp.key = "C" /\ resp.evicted = "B"
  /\ DOMAIN store = {"A", "C"}
  /\ recency = <<"A", "C">>

\* C5: get(k, version) returns None exactly when no row is persisted for k
\* (version omitted) or for (k, version) (version given).
NotFoundIffAbsent ==
  resp.op = "get" =>
    (resp.get.found <=> \E r \in RowsOf(resp.key) : resp.version = None \/ r.version = resp.version)

\* A version that does not exist was asked of a cached key and was not found.
NotFoundIffAbsentWitness ==
  /\ resp.op = "get" /\ ~resp.get.found /\ resp.version # None
  /\ resp.key \in DOMAIN store /\ RowsOf(resp.key) # {}

\* C6: a get with no version answered from the cache returns the highest
\* version cached for the key.
GetReturnsHighestCached ==
  (resp.op = "get" /\ resp.version = None /\ resp.get.source = "cache")
    => \A i \in 1 .. Len(store[resp.key]) : store[resp.key][i].version <= resp.get.version

\* C7: every cache entry is non-empty and ordered by version ascending, so
\* that its last element is the highest version cached.
CacheEntryOrdered ==
  \A k \in DOMAIN store :
    /\ Len(store[k]) > 0
    /\ \A i, j \in 1 .. Len(store[k]) : i < j => store[k][i].version < store[k][j].version

\* C8: a put or get addressed to a cached key, or made while the cache holds
\* fewer than max_cache_size keys, removes no key and no record of another key.
EvictionOnlyForNewKeyAtCapacity ==
  [][(resp'.op \in {"put", "get"}
        /\ (resp'.key \in DOMAIN store \/ Cardinality(DOMAIN store) < max_cache_size))
       => /\ DOMAIN store \subseteq DOMAIN store'
          /\ \A k \in DOMAIN store \ {resp'.key} : store'[k] = store[k]]_vars

\* A historical version of a cached key was fetched into a full cache.
EvictionOnlyForNewKeyAtCapacityWitness ==
  /\ resp.op = "get" /\ resp.version # None /\ resp.get.source = "database"
  /\ resp.evicted = "None"
  /\ Cardinality(DOMAIN store) = max_cache_size
  /\ Len(store[resp.key]) >= 2

\* C9: the versions persisted for a key are exactly 1..n after n puts, one
\* row each; put reports create with no previous version for the first put of
\* a key and otherwise update with new_version = previous_version + 1; no put
\* or get removes or changes a persisted row.
PersistenceVersions ==
  [][/\ \A k \in Keys :
          /\ {r.version : r \in RowsOf(k)'} = 1 .. put_count'[k]
          /\ Cardinality(RowsOf(k)') = put_count'[k]
     /\ resp'.op = "put" =>
          IF put_count[resp'.key] = 0
          THEN resp'.put.operation = "create" /\ resp'.put.previous_version = None
          ELSE /\ resp'.put.operation = "update"
               /\ resp'.put.previous_version = put_count[resp'.key]
               /\ resp'.put.new_version = resp'.put.previous_version + 1
     /\ values_table \subseteq values_table']_vars

\* A second put of a key has reported an update from version 1 to version 2.
PersistenceVersionsWitness ==
  /\ resp.op = "put" /\ resp.put.operation = "update"
  /\ resp.put.previous_version = 1 /\ resp.put.new_version = 2

\* C10: a get answered by the database leaves the fetched record in the
\* key's cache entry, evicting one key, of the oldest last-access timestamp,
\* when the key was not cached and the cache was full and none otherwise, and
\* the same get repeated at once returns the same value, version and
\* timestamp with source=cache.
CacheAsidePopulation ==
  [][/\ (resp'.op = "get" /\ resp'.get.source = "database")
          => /\ resp'.key \in DOMAIN store'
             /\ \E i \in 1 .. Len(store'[resp'.key]) :
                  store'[resp'.key][i] = [value |-> resp'.get.value, version |-> resp'.get.version,
                                          timestamp |-> resp'.get.timestamp]
             /\ IF resp'.key \notin DOMAIN store /\ Cardinality(DOMAIN store) >= max_cache_size
                THEN \E e \in DOMAIN store :
                       /\ DOMAIN store \ DOMAIN store' = {e}
                       /\ \A k \in DOMAIN store : TimeOf(access_times, e) <= TimeOf(access_times, k)
                ELSE DOMAIN store \subseteq DOMAIN store'
     /\ (resp.op = "get" /\ resp.get.source = "database"
           /\ resp'.op = "get" /\ resp'.key = resp.key /\ resp'.version = resp.version)
          => resp'.get = [resp.get EXCEPT !.source = "cache"]]_vars

\* A historical version fetched from the database was asked for again.
CacheAsidePopulationWitness ==
  /\ resp.op = "get" /\ resp.follows = "database get" /\ resp.version # None
  /\ resp.get.source = "cache" /\ Len(store[resp.key]) >= 2

\* C11: with several threads calling put and get on one store, at most one
\* thread is inside the body of put or get (its Persistence call included),
\* and it is the one that holds the lock; the state of the store and of the
\* database changes only by a step of that thread, so the latest version a
\* put has read is still the latest when it inserts; and the versions
\* persisted for a key are 1..n after n puts, one row each, also when the
\* puts were called concurrently.
StoreOperationsSerialized ==
  [][/\ Cardinality({t \in Threads : pc'[t] \in Body}) <= 1
     /\ \A t \in Threads : pc'[t] \in Body <=> lock' = t
     /\ store_vars' # store_vars
          => /\ lock \in Threads
             /\ pc[lock] \in Body
             /\ \A t \in Threads \ {lock} : pc'[t] = pc[t] /\ frame'[t] = frame[t]
     /\ \A t \in Threads :
          pc'[t] = "put_insert" => frame'[t].result = select_latest_version(values_table', frame'[t].key)
     /\ \A k \in Keys :
          /\ {r.version : r \in RowsOf(k)'} = 1 .. put_count'[k]
          /\ Cardinality(RowsOf(k)') = put_count'[k]]_vars

\* A put that found version 1 is inside put while another put to the same
\* key, called before the first one returned, waits for the lock.
StoreOperationsSerializedWitness ==
  \E t, u \in Threads :
    /\ t # u
    /\ pc[t] = "put_cache" /\ frame[t].result = 1
    /\ pc[u] = "acquire" /\ frame[u].op = "put" /\ frame[u].key = frame[t].key

\* The nodes present in a ring, the hash values of the virtual nodes of a
\* node, and the number of entries of sorted_keys that carry one of them.
Members(r) == {r.ring[h] : h \in DOMAIN r.ring}

HashesOf(server) == {hash(virtual_key(server, i)) : i \in 0 .. (virtual_nodes - 1)}

EntriesOf(server) == Cardinality({i \in 1 .. Len(sorted_keys) : sorted_keys[i] \in HashesOf(server)})

\* The node the lookup rule names for a key: the owner of the entry with the
\* smallest hash value >= hash(key), and of the entry with the smallest hash
\* value of all when there is none.
Owner(r, key) ==
  LET at_or_after == {h \in DOMAIN r.ring : h >= hash(key)}
      from == IF at_or_after # {} THEN at_or_after ELSE DOMAIN r.ring
  IN  r.ring[CHOOSE h \in from : \A g \in from : h <= g]

RingInvariant ==
  /\ \A i, j \in 1 .. Len(sorted_keys) : i < j => sorted_keys[i] <= sorted_keys[j]
  /\ \A server \in Servers :
       EntriesOf(server) = IF server \in Members(Ring) THEN virtual_nodes ELSE 0

\* C14: remove_server(X) leaves every key that a node Y # X owned with Y, and
\* add_server(Z) leaves every key that a node Y owned with Y or gives it to Z.
MinimalDisruption ==
  [][/\ \A X \in Servers :
          (Len(sorted_keys') < Len(sorted_keys) /\ Ring' = remove_server(Ring, X))
            => \A key \in Names :
                 (get_server(Ring, key) \in Servers \ {X}) => get_server(Ring', key) = get_server(Ring, key)
     /\ \A Z \in Servers :
          (Len(sorted_keys') > Len(sorted_keys) /\ Ring' = add_server(Ring, Z))
            => \A key \in Names :
                 (get_server(Ring, key) \in Servers) => get_server(Ring', key) \in {get_server(Ring, key), Z}]_vars

\* s1, a node of the ring as constructed, was removed and s3 was added; a key
\* then looked up belongs to s3.
MinimalDisruptionWitness ==
  /\ Members(Ring) = {"s2", "s3"}
  /\ EntriesOf("s1") = 0
  /\ found.key # "None" /\ found.server = "s3"

\* C15: get_backend_url fails, whatever the path and the server parameter,
\* whenever the ring holds no node.
EmptyRingFails ==
  (backend.path # <<>> /\ Members(Ring) = {}) => ~backend.result.ok

\* C16: a get_backend_url call that is given a server parameter succeeds only
\* if the parameter names a node the ring holds, on every path, and fails
\* with "Server not found" if it names none while the ring holds a node.
OverrideValidated ==
  (backend.path # <<>> /\ truthy(backend.server_param))
    => /\ backend.result.ok => backend.server_param \in Members(Ring)
       /\ (backend.server_param \notin Members(Ring) /\ Members(Ring) # {})
            => backend.result = Raised("Server not found")

\* C17: put/<key> and get/<key> with a non-empty key go to the node
\* get_server(key) returns, and fail when it returns none; cache/stats and
\* db/stats without a server parameter fail, with "Server parameter is
\* required" when a server is configured; every other path goes to the first
\* server of the configured list whenever that list is not empty.
RoutingByPathClass ==
  backend.path # <<>> =>
    LET path == backend.path
        keyed == Len(path) = 2 /\ path[1] \in {"put", "get"} /\ path[2] # ""
        administrative == path \in {<<"cache", "stats">>, <<"db", "stats">>}
    IN  /\ keyed => IF get_server(Ring, path[2]) \in Servers
                    THEN backend.result = Url(get_server(Ring, path[2]))
                    ELSE ~backend.result.ok
        /\ (administrative /\ backend.server_param \in {"None", ""})
             => /\ ~backend.result.ok
                /\ servers # <<>> => backend.result.error = "Server parameter is required"
        /\ (~keyed /\ ~administrative /\ servers # <<>>) => backend.result = Url(servers[1])

\* put/ with an empty key, on a gateway configured with s1 and s2 whose ring
\* has been changed since, went to s1.
RoutingByPathClassWitness ==
  /\ backend.path = <<"put", "">>
  /\ backend.result = Url("s1")
  /\ Members(Ring) # {"s1", "s2"}

\* The smaller of two numbers.
Min(a, b) == IF a <= b THEN a ELSE b

\* C18: a record_request for a node adds one to the counter of that node and
\* leaves the counter and the window of every other node as they were; after
\* n requests of a node its counter is n and its window holds min(n, 50)
\* measurements, the most recent ones in the order they came (the i-th
\* request of a node measures i here).
MetricsWindow ==
  [][/\ \A server \in Servers :
          LET n == request_counts'[server]
              window == latency_times'[server]
          IN  /\ Len(window) = Min(n, 50)
              /\ \A i \in 1 .. Len(window) : window[i] = n - Len(window) + i
     /\ (request_counts' # request_counts \/ latency_times' # latency_times)
          => \E server \in Servers :
               /\ request_counts'[server] = request_counts[server] + 1
               /\ \A other \in Servers \ {server} :
                    /\ request_counts'[other] = request_counts[other]
                    /\ latency_times'[other] = latency_times[other]]_vars

\* A node has served 51 requests, and the first measurement has left its
\* window.
MetricsWindowWitness ==
  \E server \in Servers :
    /\ request_counts[server] = 51
    /\ Len(latency_times[server]) = 50
    /\ latency_times[server][1] = 2 /\ latency_times[server][50] = 51

\* C19: get_insights lists a configured server in hot_spots exactly when
\* 2 * N * count > 3 * total, N being the number of configured servers and
\* total the sum of their counts (servers without traffic included); counts
\* of 10, 10, 31 list the third server alone, 10, 10, 20 and 0, 0, 0 none.
HotSpotThreshold ==
  insights.error = "None" =>
    LET N == Len(servers)
        total == sum([i \in 1 .. N |-> request_counts[servers[i]]])
        counts == [i \in 1 .. N |-> request_counts[servers[i]]]
    IN  /\ \A i \in 1 .. N :
             in_list(servers[i], insights.hot_spots) <=> 2 * N * request_counts[servers[i]] > 3 * total
        /\ \A i \in 1 .. Len(insights.hot_spots) : in_list(insights.hot_spots[i], servers)
        /\ counts = <<10, 10, 31>> => insights.hot_spots = <<servers[3]>>
        /\ counts \in {<<10, 10, 20>>, <<0, 0, 0>>} => insights.hot_spots = <<>>

\* The insights of a gateway whose servers have served 10, 10 and 31
\* requests name the third one as the only hot spot.
HotSpotThresholdWitness ==
  /\ insights.error = "None"
  /\ [i \in 1 .. Len(servers) |-> request_counts[servers[i]]] = <<10, 10, 31>>
  /\ insights.hot_spots = <<"s3">>

\* C20: a get_server call that runs beside remove_server never fails and
\* returns what it would return on the ring as it was before the removal or
\* as it is after it.
LocateSeesWholeRing ==
  reader.pc = "done" =>
    /\ reader.result \notin {"KeyError", "IndexError"}
    /\ reader.result \in {get_server(r, reader.key) : r \in reader.rings}

\* C21: the total_versions a put returns is the number of records the cache
\* holds for the key right after the put; it is 1 when the key was not cached
\* before, however many versions the database holds.
TotalVersionsCountsCache ==
  resp.op = "put" =>
    /\ resp.key \in DOMAIN store
    /\ resp.put.total_versions = Len(store[resp.key])

\* A put to a key that is not cached and has an earlier version in the
\* database: total_versions is 1, two versions are persisted.
TotalVersionsCountsCacheWitness ==
  /\ resp.op = "put"
  /\ resp.put.total_versions = 1
  /\ Cardinality(RowsOf(resp.key)) = 2

\* C22: GET /insights answers "No metrics data available" exactly when no
\* request has been recorded for any server, and with the aggregate report
\* once a request has been recorded.
NoDataUntilRecorded ==
  insights.error # "not asked" =>
    (insights.error = "No metrics data available" <=> TotalRequests = 0)

\* C23: a get without a version returns the value and the version of the last
\* put to the key, whatever puts, gets and evictions came before.
ReadFreshness ==
  (resp.op = "get" /\ resp.version = None /\ RowsOf(resp.key) # {}) =>
    /\ resp.get.found
    /\ resp.get.version = select_latest_version(values_table, resp.key)
    /\ \E r \in RowsOf(resp.key) :
         r.version = resp.get.version /\ json_loads(r.value) = resp.get.value

\* C24: every record of the cache is a row of the database with the same key,
\* version and value, and no entry of the cache holds a version twice.
CacheCoherence ==
  \A k \in DOMAIN store :
    /\ \A i \in 1 .. Len(store[k]) :
         \E r \in RowsOf(k) :
           r.version = store[k][i].version /\ json_loads(r.value) = store[k][i].value
    /\ \A i, j \in 1 .. Len(store[k]) :
         store[k][i].version = store[k][j].version => i = j

\* An entry filled from the database alone, by a get of the latest version
\* and then a get of the version before it.
CacheCoherenceWitness ==
  \E k \in DOMAIN store :
    /\ Len(store[k]) = 2
    /\ store[k][1].version = 2 /\ store[k][2].version = 1
    /\ resp.op = "get" /\ resp.get.source = "database"

\* C25: when the database's put raises inside put, the exception reaches the
\* caller, the cache holds the records it held and the keys it held, no
\* access time has changed, and the lock of the store is free, so that a
\* thread that waits for it goes on.
WriteThroughFailureAtomic ==
  [][\A t \in Threads :
       (pc[t] = "put_insert" /\ pc'[t] = "raised")
         => /\ frame'[t] = NoFrame
            /\ store' = store
            /\ access_times' = access_times
            /\ lock = t /\ lock' = "None"
            /\ \A u \in Threads : pc'[u] = "acquire" => lock_available(lock', u)]_vars

\* A put has failed, and a thread that took the lock after the failure has
\* written its own put to the database and is about to cache it.
WriteThroughFailureAtomicWitness ==
  \E t, u \in Threads :
    /\ pc[t] = "raised"
    /\ lock = u /\ pc[u] = "put_cache"

\* C26: a get that returns not-found leaves the database, the cached keys and
\* their records as they were and evicts nothing; of the access index it
\* changes at most the time of the requested key, and only when that key is
\* cached.
NotFoundReadsFrame ==
  [][(resp'.op = "get" /\ ~resp'.get.found) =>
       /\ store' = store
       /\ values_table' = values_table /\ keys_table' = keys_table
       /\ resp'.evicted = "None"
       /\ Len(access_times') = Len(access_times)
       /\ \A i \in 1 .. Len(access_times) :
            /\ access_times'[i].key = access_times[i].key
            /\ access_times[i].key # resp'.key => access_times'[i].time = access_times[i].time
       /\ resp'.key \notin DOMAIN store => access_times' = access_times]_vars

\* A get of a version the database does not hold, for the first of two
\* cached keys: the key has the access time of a later reading of the clock
\* than the other key and is still the first key of the access index.
NotFoundReadsFrameWitness ==
  /\ resp.op = "get" /\ ~resp.get.found
  /\ resp.key \in DOMAIN store
  /\ Len(access_times) = 2 /\ access_times[1].key = resp.key
  /\ access_times[1].time = 1 /\ access_times[2].time = 0

\* C27: a request whose node was resolved adds exactly one to the counter of
\* that node and nothing to any other, whether the node answered, the call
\* to it raised or its answer could not be parsed; a request whose routing
\* failed leaves the metrics as they were.
ExactlyOnceMetrics ==
  [][(forward' # forward \/ request_counts' # request_counts \/ latency_times' # latency_times) =>
       IF forward'.status = no_servers_available
       THEN request_counts' = request_counts /\ latency_times' = latency_times
       ELSE /\ request_counts' = [request_counts EXCEPT ![forward'.server_name] = @ + 1]
            /\ \A server \in Servers \ {forward'.server_name} :
                 latency_times'[server] = latency_times[server]]_vars

\* C28: while the ring has a node, get_server succeeds for every key and
\* returns a node that is in the ring.
LookupLandsOnMember ==
  Members(Ring) # {} =>
    \A key \in RouteKeys : get_server(Ring, key) \in Members(Ring)

====
